---------------------------- MODULE Spec2Model ----------------------------
(***************************************************************************)
(* The regex-AST normalizer of ticket_django_13525/better_regex_parser.py. *)
(*                                                                         *)
(* Characters are code points, strings are sequences of code points.  A    *)
(* generator is modelled by the stream it produces when it is drained: the *)
(* triples it yields, in order, and the exception that ends it, if any.    *)
(* A clause is a record with a "type" field (the sre opcode) and the       *)
(* fields of its value.                                                    *)
(***************************************************************************)
EXTENDS Integers, Sequences, FiniteSets, TLC

VARIABLES
    pattern_parse_tree,   \* the clause sequence re.sre_parse.parse returned
    pattern_groupdict,    \* the parser's name -> group id map
    pc,                   \* where the scenario stands
    gen,                  \* what the _normalize generator of normalize has still to give
    out,                  \* the pairs normalize has yielded so far
    raised,               \* the exception that ended the enumeration
    call,                 \* the last direct call of a handler and its result
    hash_order            \* the order in which this process iterates a set of names

vars == <<pattern_parse_tree, pattern_groupdict, pc, gen, out, raised, call, hash_order>>

----------------------------------------------------------------------------
(* Strings *)

RECURSIVE Join(_)
\* ''.join(parts)
Join(parts) == IF parts = <<>> THEN <<>> ELSE Head(parts) \o Join(Tail(parts))

RECURSIVE Times(_, _)
\* s * n
Times(s, n) == IF n <= 0 THEN <<>> ELSE s \o Times(s, n - 1)

RECURSIVE Decimal(_)
\* '%d' % n, for n >= 0
Decimal(n) == IF n < 10 THEN <<48 + n>> ELSE Decimal(n \div 10) \o <<48 + (n % 10)>>

\* chr(c)
chr(c) == <<c>>

\* s.isdigit(), for ASCII strings
isdigit(s) == s # <<>> /\ \A i \in 1..Len(s) : s[i] \in 48..57

Range(s) == {s[i] : i \in DOMAIN s}

\* min(S) of a non-empty set of characters
min(S) == CHOOSE c \in S : \A d \in S : c <= d

----------------------------------------------------------------------------
(* Exceptions *)

NoError == "none"
InvalidGroupName == "ValueError: Group name cannot have format _d+"
UnsupportedCategory == "NotImplementedError: category is not supported in character classes."
EmptySequence == "ValueError: min() arg is an empty sequence"
UnknownClause == "KeyError: clause type"
AssertionFailed == "AssertionError"

----------------------------------------------------------------------------
(* Generators as streams *)

Triple(fs, args, refs) == [fs |-> fs, args |-> args, refs |-> refs]

Yield(items) == [items |-> items, err |-> NoError]

Raise(e) == [items |-> <<>>, err |-> e]

\* run s, and then t unless s raised
Then(s, t) ==
    IF s.err # NoError THEN s ELSE [items |-> s.items \o t.items, err |-> t.err]

----------------------------------------------------------------------------
(* Character-domain tables *)

digits == 48..57
ascii_letters == (97..122) \cup (65..90)
punctuation == (33..47) \cup (58..64) \cup (91..96) \cup (123..126)

DIGITS == 48..57
WHITESPACE == {32, 9, 10, 13, 11, 12}

ALLOWED_URL_CHARACTERS == digits \cup ascii_letters \cup punctuation

Category(char_set, default_mapping) ==
    [char_set |-> char_set, default_mapping |-> default_mapping]

\* The context of a call carries, besides the two fields of the namedtuple, the
\* set iteration order of the process the call runs in.
Context(pattern_reverse_groupdict, in_unnamed_group, order) ==
    [pattern_reverse_groupdict |-> pattern_reverse_groupdict,
     in_unnamed_group |-> in_unnamed_group,
     hash_order |-> order]

CATEGORY_MAP ==
    [c \in {"category_digit", "category_not_digit", "category_space",
            "category_not_space", "category_word", "category_not_word"} |->
        CASE c = "category_digit" -> Category(DIGITS, <<48>>)
          [] c = "category_not_digit" -> Category(ALLOWED_URL_CHARACTERS \ DIGITS, <<120>>)
          [] c = "category_space" -> Category(WHITESPACE, <<32>>)
          [] c = "category_not_space" -> Category(ALLOWED_URL_CHARACTERS \ WHITESPACE, <<120>>)
          [] c = "category_word" -> Category(ascii_letters \cup digits \cup {95}, <<88>>)
          [] c = "category_not_word" -> Category(ascii_letters \cup digits \cup {95}, <<33>>)]

----------------------------------------------------------------------------
(* Helpers of the tree combinator *)

RECURSIVE SetToSeq(_)
SetToSeq(S) ==
    IF S = {} THEN <<>>
    ELSE LET x == CHOOSE y \in S : TRUE IN <<x>> \o SetToSeq(S \ {x})

\* The orders a process may iterate a set in: Python fixes none, and the hash
\* seed of the process decides.
IterationOrders == {"ascending", "descending"}

\* list(set(...)): the elements, each once, in the order of the process
list_of_set(S, order) ==
    LET l == SetToSeq(S)
    IN  IF order = "ascending" THEN l ELSE [i \in 1..Len(l) |-> l[Len(l) + 1 - i]]

RECURSIVE unique_list(_)
\* Stable list unique.
unique_list(l) ==
    IF l = <<>> THEN <<>>
    ELSE LET init == unique_list(SubSeq(l, 1, Len(l) - 1))
             x == l[Len(l)]
         IN  IF x \in Range(init) THEN init ELSE Append(init, x)

\* {v: k for k, v in pattern_groupdict.items()}
reverse_groupdict(groupdict) ==
    [v \in {groupdict[k] : k \in DOMAIN groupdict} |->
        CHOOSE k \in DOMAIN groupdict : groupdict[k] = v]

RECURSIVE product_first_fastest(_)
\* a product in which the first pool varies fastest
product_first_fastest(pools) ==
    IF pools = <<>> THEN << <<>> >>
    ELSE LET rest == product_first_fastest(Tail(pools))
             first == Head(pools)
             row(r) == [i \in 1..Len(first) |-> <<first[i]>> \o r]
         IN  Join([j \in 1..Len(rest) |-> row(rest[j])])

RECURSIVE product(_)
\* itertools.product(*pools): the first pool varies slowest
product(pools) ==
    IF pools = <<>> THEN << <<>> >>
    ELSE LET rest == product(Tail(pools))
             first == Head(pools)
             row(x) == [j \in 1..Len(rest) |-> <<x>> \o rest[j]]
         IN  Join([i \in 1..Len(first) |-> row(first[i])])

\* '%%(%s)s' % group_name
Marker(group_name) == <<37, 40>> \o group_name \o <<41, 115>>

\* unnamed groups counted from 1
ImplicitName_from_one(group_id) == <<95>> \o Decimal(group_id)

\* '_%d' % (group_id - 1)
ImplicitName(group_id) == <<95>> \o Decimal(group_id - 1)

----------------------------------------------------------------------------
(* Clause dispatcher *)

RECURSIVE _normalize(_, _)
RECURSIVE dispatch_clause(_, _)
RECURSIVE parse_branch_from(_, _, _)
RECURSIVE negate_loop(_, _, _)
RECURSIVE negate_loop_skipping(_, _, _)

parse_at(clause, context) == Yield(<<Triple(<<>>, <<>>, <<>>)>>)

parse_any(clause, context) == Yield(<<Triple(<<46>>, <<>>, <<>>)>>)

\* for subpattern in subpatterns[i..]: yield from _normalize(subpattern, context)
parse_branch_from(subpatterns, i, context) ==
    IF i > Len(subpatterns) THEN Yield(<<>>)
    ELSE Then(_normalize(subpatterns[i], context),
              parse_branch_from(subpatterns, i + 1, context))

\* a branch that combines its alternatives like siblings
parse_branch_as_siblings(clause, context) ==
    LET n == Len(clause.alts)
        pools == [i \in 1..n |-> _normalize(clause.alts[i], context).items]
        tuples == product(pools)
        glue(fs) == Triple(Join([i \in 1..n |-> fs[i].fs]),
                           Join([i \in 1..n |-> fs[i].args]),
                           Join([i \in 1..n |-> fs[i].refs]))
    IN  Yield([k \in 1..Len(tuples) |-> glue(tuples[k])])

parse_branch(clause, context) == parse_branch_from(clause.alts, 1, context)

\* a back-reference that always takes the implicit name
parse_groupref_by_id(clause, context) ==
    Yield(<<Triple(Marker(ImplicitName(clause.id)), <<>>, <<ImplicitName(clause.id)>>)>>)

parse_groupref(clause, context) ==
    LET group_id == clause.id
        rev == context.pattern_reverse_groupdict
        group_name == IF group_id \in DOMAIN rev THEN rev[group_id]
                      ELSE ImplicitName(group_id)
    IN  Yield(<<Triple(Marker(group_name), <<>>, <<group_name>>)>>)

parse_literal(clause, context) == Yield(<<Triple(chr(clause.c), <<>>, <<>>)>>)

\* a loop that passes over a category the table does not hold
negate_loop_skipping(items, i, candidate_ascii) ==
    IF i > Len(items) THEN [cand |-> candidate_ascii, err |-> NoError]
    ELSE LET it == items[i]
             gone == IF it.type = "range" THEN it.lo..it.hi
                     ELSE IF it.type = "literal" THEN {it.c}
                     ELSE IF it.cat \in DOMAIN CATEGORY_MAP THEN CATEGORY_MAP[it.cat].char_set
                     ELSE {}
         IN  negate_loop_skipping(items, i + 1, candidate_ascii \ gone)

\* the loop over clause[i..] of a negated class: what is left of the candidates,
\* or the exception that ended the loop
negate_loop(items, i, candidate_ascii) ==
    IF i > Len(items) THEN [cand |-> candidate_ascii, err |-> NoError]
    ELSE LET it == items[i] IN
         IF it.type = "range"
           THEN negate_loop(items, i + 1, candidate_ascii \ (it.lo..it.hi))
         ELSE IF it.type = "category"
           THEN IF it.cat \in DOMAIN CATEGORY_MAP
                  THEN negate_loop(items, i + 1,
                                   candidate_ascii \ CATEGORY_MAP[it.cat].char_set)
                  ELSE [cand |-> candidate_ascii, err |-> UnsupportedCategory]
         ELSE IF it.type = "literal"
           THEN negate_loop(items, i + 1, candidate_ascii \ {it.c})
         ELSE [cand |-> candidate_ascii, err |-> AssertionFailed]

parse_in(clause, context) ==
    LET items == clause.items IN
    IF Len(items) = 0 THEN Raise(AssertionFailed)
    ELSE LET first == items[1] IN
         IF first.type = "negate"
           THEN LET r == negate_loop(items, 2, ALLOWED_URL_CHARACTERS) IN
                IF r.err # NoError THEN Raise(r.err)
                ELSE IF r.cand = {} THEN Raise(EmptySequence)
                ELSE Yield(<<Triple(chr(min(r.cand)), <<>>, <<>>)>>)
         ELSE IF first.type = "literal"
           THEN parse_literal(first, context)
         ELSE IF first.type = "category"
           THEN IF first.cat \in DOMAIN CATEGORY_MAP
                  THEN Yield(<<Triple(CATEGORY_MAP[first.cat].default_mapping, <<>>, <<>>)>>)
                  ELSE Raise(UnsupportedCategory)
         ELSE IF first.type = "range"
           THEN Yield(<<Triple(chr(first.lo), <<>>, <<>>)>>)
         ELSE Yield(<<>>)

parse_not_literal(clause, context) ==
    LET candidate_ascii == ALLOWED_URL_CHARACTERS \ {clause.c}
    IN  Yield(<<Triple(chr(min(candidate_ascii)), <<>>, <<>>)>>)

\* a repeat that forgets that it may be absent
max_repeat_head_never(min_repeat, max_repeat) ==
    IF min_repeat = 0 /\ ~(max_repeat > 0) THEN Raise(AssertionFailed) ELSE Yield(<<>>)

\* what parse_max_repeat does before it combines the subsequence
max_repeat_head(min_repeat, max_repeat) ==
    IF min_repeat = 0
      THEN Then(Yield(<<Triple(<<>>, <<>>, <<>>)>>),
                IF max_repeat > 0 THEN Yield(<<>>) ELSE Raise(AssertionFailed))
      ELSE Yield(<<>>)

\* a filter that keeps every triple
max_repeat_keeps_all(min_repeat, t) == TRUE

\* the filter of the loop of parse_max_repeat
max_repeat_keeps(min_repeat, t) ==
    ~(min_repeat = 0) \/ t.args # <<>> \/ t.refs # <<>>

parse_max_repeat(clause, context) ==
    LET min_repeat == clause.min
        max_repeat == clause.max
        head == max_repeat_head(min_repeat, max_repeat)
        repeat == IF min_repeat = 0 THEN 1 ELSE min_repeat
        inner == _normalize(clause.sub, context)
        kept == SelectSeq(inner.items, LAMBDA t : max_repeat_keeps(min_repeat, t))
        body == [items |-> [i \in 1..Len(kept) |->
                               Triple(Times(kept[i].fs, repeat), kept[i].args, kept[i].refs)],
                 err |-> inner.err]
    IN  Then(head, body)

\* a test of the first character only
reserved_name_underscore(group_name) == group_name[1] = 95

\* no name is reserved
reserved_name_never(group_name) == FALSE

\* group_name[0] == '_' and group_name[1:].isdigit()
reserved_name(group_name) ==
    group_name[1] = 95 /\ isdigit(SubSeq(group_name, 2, Len(group_name)))

\* the filter of the loop of parse_subpattern; group_id 0 stands for None
subpattern_keeps(group_id, t) == t.args # <<>> \/ group_id = 0

\* a group that never marks the context
subpattern_context_unmarked(group_id, context) == context

\* a group that marks the context whenever it captures, named or not
subpattern_context_any_capturing(group_id, context) ==
    IF group_id # 0
      THEN Context(context.pattern_reverse_groupdict, TRUE, context.hash_order)
      ELSE context

\* the context the subsequence of a group is combined with
subpattern_context(group_id, context) ==
    IF group_id # 0
       /\ group_id \notin DOMAIN context.pattern_reverse_groupdict
       /\ ~context.in_unnamed_group
      THEN Context(context.pattern_reverse_groupdict, TRUE, context.hash_order)
      ELSE context

\* an opening that gives a marker to named groups only
subpattern_opening_named_only(group_id, context) ==
    LET rev == context.pattern_reverse_groupdict IN
    IF group_id # 0 /\ group_id \in DOMAIN rev
      THEN IF reserved_name(rev[group_id])
             THEN Raise(InvalidGroupName)
             ELSE Yield(<<Triple(Marker(rev[group_id]), <<rev[group_id]>>, <<>>)>>)
      ELSE Yield(<<>>)

\* what parse_subpattern does before it combines the subsequence
subpattern_opening(group_id, context) ==
    LET rev == context.pattern_reverse_groupdict IN
    IF group_id # 0
      THEN IF group_id \in DOMAIN rev
             THEN IF reserved_name(rev[group_id])
                    THEN Raise(InvalidGroupName)
                    ELSE Yield(<<Triple(Marker(rev[group_id]), <<rev[group_id]>>, <<>>)>>)
           ELSE IF ~context.in_unnamed_group
             THEN Yield(<<Triple(Marker(ImplicitName(group_id)),
                                 <<ImplicitName(group_id)>>, <<>>)>>)
           ELSE Yield(<<>>)
      ELSE Yield(<<>>)

parse_subpattern(clause, context) ==
    LET group_id == clause.id
        inner == _normalize(clause.sub, subpattern_context(group_id, context))
        body == [items |-> SelectSeq(inner.items,
                                     LAMBDA t : subpattern_keeps(group_id, t)),
                 err |-> inner.err]
    IN  Then(subpattern_opening(group_id, context), body)

DISPATCH_TABLE ==
    {"any", "at", "branch", "groupref", "in", "literal", "max_repeat",
     "not_literal", "subpattern"}

dispatch_clause(clause, context) ==
    IF clause.type \notin DISPATCH_TABLE THEN Raise(UnknownClause)
    ELSE CASE clause.type = "any" -> parse_any(clause, context)
           [] clause.type = "at" -> parse_at(clause, context)
           [] clause.type = "branch" -> parse_branch(clause, context)
           [] clause.type = "groupref" -> parse_groupref(clause, context)
           [] clause.type = "in" -> parse_in(clause, context)
           [] clause.type = "literal" -> parse_literal(clause, context)
           [] clause.type = "max_repeat" -> parse_max_repeat(clause, context)
           [] clause.type = "not_literal" -> parse_not_literal(clause, context)
           [] clause.type = "subpattern" -> parse_subpattern(clause, context)

----------------------------------------------------------------------------
(* Tree combinator *)

\* a merge that collects the required names through a set, like the referenced ones
merge_args_through_set(format_strings, context) ==
    LET n == Len(format_strings)
        args == list_of_set(Range(Join([i \in 1..n |-> format_strings[i].args])),
                            context.hash_order)
        refs == list_of_set(Range(Join([i \in 1..n |-> format_strings[i].refs])),
                            context.hash_order)
    IN  Triple(Join([i \in 1..n |-> format_strings[i].fs]), args, refs)

\* one tuple of the product, merged into one triple
merge(format_strings, context) ==
    LET n == Len(format_strings)
        args == unique_list(Join([i \in 1..n |-> format_strings[i].args]))
        refs == list_of_set(Range(Join([i \in 1..n |-> format_strings[i].refs])),
                            context.hash_order)
    IN  Triple(Join([i \in 1..n |-> format_strings[i].fs]), args, refs)

\* product(*parse_tree) drains every generator of parse_tree, in order, before
\* the first tuple: the first exception among them ends _normalize
first_error(pools) ==
    LET bad == {i \in 1..Len(pools) : pools[i].err # NoError}
    IN  IF bad = {} THEN NoError
        ELSE pools[CHOOSE i \in bad : \A j \in bad : i <= j].err

\* a combinator that yields what it has before it meets the exception of a clause
normalize_undrained(tree, context) ==
    LET parse_tree == [i \in 1..Len(tree) |-> dispatch_clause(tree[i], context)]
        tuples == product([i \in 1..Len(tree) |-> parse_tree[i].items])
    IN  [items |-> [k \in 1..Len(tuples) |-> merge(tuples[k], context)],
         err |-> first_error(parse_tree)]

_normalize(tree, context) ==
    LET parse_tree == [i \in 1..Len(tree) |-> dispatch_clause(tree[i], context)]
        e == first_error(parse_tree)
    IN  IF e # NoError THEN Raise(e)
        ELSE LET tuples == product([i \in 1..Len(tree) |-> parse_tree[i].items])
             IN  Yield([k \in 1..Len(tuples) |-> merge(tuples[k], context)])
----------------------------------------------------------------------------
(* The parse trees re.sre_parse.parse hands over *)

\* a pattern has at most MaxClauses clauses, nested ones included
MaxClauses == 3
\* a character class has at most MaxItems items after its negation marker
MaxItems == 2

\* the names a group of a structure pattern is declared with: a and _0 (reserved)
GroupNames == <<(<<97>>), (<<95, 48>>)>>

\* more names: _1 and _12 (reserved), _, _x, _0x and x1
MoreNames == {<<95, 49>>, <<95, 49, 50>>, <<95>>, <<95, 120>>, <<95, 48, 120>>, <<120, 49>>}

\* the (min, max) of the repeats of a structure pattern: ?
Repeats == <<(<<0, 1>>)>>

Literal(c) == [type |-> "literal", c |-> c]
NotLiteral(c) == [type |-> "not_literal", c |-> c]
AnyChar == [type |-> "any"]
At == [type |-> "at"]
In(items) == [type |-> "in", items |-> items]
Branch(alts) == [type |-> "branch", alts |-> alts]
GroupRef(id) == [type |-> "groupref", id |-> id]
MaxRepeat(mn, mx, sub) == [type |-> "max_repeat", min |-> mn, max |-> mx, sub |-> sub]
MinRepeat(mn, mx, sub) == [type |-> "min_repeat", min |-> mn, max |-> mx, sub |-> sub]
\* id 0 stands for None, the id of a non-capturing group
Subpattern(id, sub) == [type |-> "subpattern", id |-> id, sub |-> sub]

Negate == [type |-> "negate"]
LiteralItem(c) == [type |-> "literal", c |-> c]
RangeItem(lo, hi) == [type |-> "range", lo |-> lo, hi |-> hi]
CategoryItem(cat) == [type |-> "category", cat |-> cat]

\* The parser moves a common first clause out of the alternatives, and turns
\* alternatives that are one literal each into a character class.
kept_branch(first, second) ==
    /\ ~(first # <<>> /\ second # <<>> /\ first[1] = second[1])
    /\ ~(Len(first) = 1 /\ Len(second) = 1
         /\ first[1].type = "literal" /\ second[1].type = "literal")

\* The parser turns [x] into a literal and [^x] into a not_literal.
kept_class(items) ==
    /\ items # <<>>
    /\ items # <<Negate>>
    /\ ~(Len(items) = 1 /\ items[1].type = "literal")
    /\ ~(Len(items) = 2 /\ items[1].type = "negate" /\ items[2].type = "literal")

Parsed(tree, left, next, gd) == [tree |-> tree, left |-> left, next |-> next, gd |-> gd]

Map(s, F(_)) == [i \in 1..Len(s) |-> F(s[i])]

RECURSIVE Flat(_, _, _)
\* parts[lo] \o ... \o parts[hi]
Flat(parts, lo, hi) ==
    IF lo > hi THEN <<>>
    ELSE IF lo = hi THEN parts[lo]
    ELSE LET mid == (lo + hi) \div 2
         IN  Flat(parts, lo, mid) \o Flat(parts, mid + 1, hi)

Concat(parts) == Flat(parts, 1, Len(parts))

RECURSIVE parse_seq(_, _, _, _)
RECURSIVE parse_clause(_, _, _, _)

\* The clause sequences of at most b clauses the parser can return when the next
\* group gets id next, the groups of opn are still open and gd holds the names
\* declared so far; with each, the clauses left, the next id and the names after
\* it.  They are listed, each once.
parse_seq(b, next, opn, gd) ==
    <<Parsed(<<>>, b, next, gd)>>
    \o (IF b = 0 THEN <<>>
        ELSE LET after(n) ==
                     Map(parse_seq(n.left, n.next, opn, n.gd),
                         LAMBDA r : Parsed(<<n.tree>> \o r.tree, r.left, r.next, r.gd))
             IN  Concat(Map(parse_clause(b, next, opn, gd), after)))

parse_clause(b, next, opn, gd) ==
    LET inside == parse_seq(b - 1, next, opn, gd)
        group(g) == parse_seq(b - 1, next + 1, opn \cup {next}, g)
        wrap(id, rs) == Map(rs, LAMBDA r : Parsed(Subpattern(id, r.tree), r.left, r.next, r.gd))
        named(nm) == IF nm \in DOMAIN gd THEN <<>> ELSE wrap(next, group(gd @@ (nm :> next)))
        \* a repeat holds one clause, and that clause is not a repeat
        repeated(q) ==
            IF b = 1 THEN <<>>
            ELSE Map(SelectSeq(parse_clause(b - 1, next, opn, gd),
                               LAMBDA r : r.tree.type \notin {"max_repeat", "min_repeat"}),
                     LAMBDA r : Parsed(MaxRepeat(q[1], q[2], <<r.tree>>), r.left, r.next, r.gd))
        branch(r1) ==
            Map(SelectSeq(parse_seq(r1.left, r1.next, opn, r1.gd),
                          LAMBDA r : kept_branch(r1.tree, r.tree)),
                LAMBDA r2 : Parsed(Branch(<<r1.tree, r2.tree>>), r2.left, r2.next, r2.gd))
    IN  <<Parsed(Literal(97), b - 1, next, gd),
          Parsed(MinRepeat(0, 1, <<Literal(97)>>), b - 1, next, gd)>>
        \* a back-reference to a group that is closed
        \o Map(SetToSeq((1..(next - 1)) \ opn),
               LAMBDA k : Parsed(GroupRef(k), b - 1, next, gd))
        \* (?:...), (...), (?P<name>...)
        \o wrap(0, inside)
        \o wrap(next, group(gd))
        \o Concat(Map(GroupNames, named))
        \o Concat(Map(Repeats, repeated))
        \* first|second
        \o Concat(Map(inside, branch))

EmptyDict == [nm \in {} |-> 0]

\* the patterns of groups, repeats, alternations and back-references
StructurePatterns ==
    Map(parse_seq(MaxClauses, 1, {}, EmptyDict), LAMBDA p : [tree |-> p.tree, gd |-> p.gd])

\* the items of character classes: !, 0, !-#, !-~ (the whole alphabet), the six
\* categories of the table and one the table does not hold
ClassItems ==
    {LiteralItem(33), LiteralItem(48), RangeItem(33, 35), RangeItem(33, 126)}
    \cup {CategoryItem(c) : c \in DOMAIN CATEGORY_MAP \cup {"category_linebreak"}}

RECURSIVE ItemSeqs(_)
\* the sequences of at most n items
ItemSeqs(n) ==
    IF n = 0 THEN {<<>>}
    ELSE {<<>>} \cup {Append(s, it) : s \in ItemSeqs(n - 1), it \in ClassItems}

\* the patterns of one clause that stands for one character, or for none
CharacterPatterns ==
    {[tree |-> <<c>>, gd |-> EmptyDict] :
        c \in {AnyChar, At, Literal(97), NotLiteral(33), NotLiteral(97)}
              \cup {In(s) : s \in {t \in ItemSeqs(MaxItems) : kept_class(t)}}
              \cup {In(<<Negate>> \o s) :
                       s \in {t \in ItemSeqs(MaxItems) : kept_class(<<Negate>> \o t)}}}

\* one group under each of the other names, alone, nested and after a literal
NamePatterns ==
    UNION {{[tree |-> <<Subpattern(1, <<Literal(97)>>)>>, gd |-> (nm :> 1)],
            [tree |-> <<Literal(97), Subpattern(1, <<>>)>>, gd |-> (nm :> 1)],
            [tree |-> <<Subpattern(1, <<Subpattern(2, <<>>)>>)>>, gd |-> (nm :> 2)]} :
           nm \in MoreNames}

\* the repeats {0}, *, +, {2} and {2,3} of a literal and of a group of either kind
RepeatPatterns ==
    {[tree |-> <<MaxRepeat(q[1], q[2], s)>>, gd |-> EmptyDict] :
        q \in {<<0, 0>>, <<0, 65535>>, <<1, 65535>>, <<2, 2>>, <<2, 3>>},
        s \in {<<Literal(97)>>, <<Subpattern(0, <<Literal(97), Literal(98)>>)>>,
               <<Subpattern(1, <<Literal(97)>>)>>}}

\* two groups and a back-reference to each: ()()\1\2, ()()\2\1, the same with
\* the names a and b, (())\1\2 and ()()?\1\2
BackrefPatterns ==
    LET g(id) == Subpattern(id, <<Literal(97)>>)
        ab == (<<97>> :> 1) @@ (<<98>> :> 2)
    IN  {[tree |-> <<g(1), g(2), GroupRef(1), GroupRef(2)>>, gd |-> EmptyDict],
         [tree |-> <<g(1), g(2), GroupRef(2), GroupRef(1)>>, gd |-> EmptyDict],
         [tree |-> <<g(1), g(2), GroupRef(1), GroupRef(2)>>, gd |-> ab],
         [tree |-> <<g(1), g(2), GroupRef(2), GroupRef(1)>>, gd |-> ab],
         [tree |-> <<Subpattern(1, <<g(2)>>), GroupRef(1), GroupRef(2)>>, gd |-> EmptyDict],
         [tree |-> <<g(1), MaxRepeat(0, 1, <<g(2)>>), GroupRef(1), GroupRef(2)>>,
          gd |-> EmptyDict]}

\* .*(A)
DotStarGroup == <<MaxRepeat(0, 65535, <<AnyChar>>), Subpattern(1, <<Literal(65)>>)>>

Patterns ==
    CharacterPatterns \cup NamePatterns \cup RepeatPatterns \cup BackrefPatterns
    \cup {[tree |-> DotStarGroup, gd |-> EmptyDict]}

RECURSIVE PreorderSeq(_)
RECURSIVE PreorderClause(_)
\* the clauses of a tree in document order, a clause before the clauses inside it
PreorderSeq(tree) == Concat(Map(tree, PreorderClause))
PreorderClause(c) ==
    <<c>> \o (CASE c.type = "branch" -> Concat(Map(c.alts, PreorderSeq))
                [] c.type \in {"max_repeat", "min_repeat", "subpattern"} -> PreorderSeq(c.sub)
                [] OTHER -> <<>>)

\* the back-references of a tree
Backrefs(tree) == SelectSeq(PreorderSeq(tree), LAMBDA c : c.type = "groupref")

\* The orders a run of the tree is explored under.  A set of names is listed only
\* where the referenced names of a tuple are merged, so a tree with fewer than two
\* back-references runs alike under every order, and one order stands for all.
OrdersOf(tree) ==
    IF Len(Backrefs(tree)) >= 2 THEN IterationOrders ELSE {"ascending"}

----------------------------------------------------------------------------
(* The walk: which calls the enumeration of a tree makes *)

Visit(fn, arg, context) == [fn |-> fn, arg |-> arg, context |-> context]

RECURSIVE walk_normalize(_, _)
RECURSIVE walk_clause(_, _)

\* _normalize dispatches its clauses in order, up to the first that raises
walk_normalize(tree, context) ==
    {Visit("_normalize", tree, context)}
    \cup UNION {walk_clause(tree[i], context) :
                  i \in {k \in 1..Len(tree) :
                           \A j \in 1..(k - 1) :
                               dispatch_clause(tree[j], context).err = NoError}}

walk_clause(clause, context) ==
    {Visit("dispatch_clause", clause, context)}
    \cup (CASE clause.type = "branch" ->
                 UNION {walk_normalize(clause.alts[i], context) :
                          i \in {k \in 1..Len(clause.alts) :
                                   \A j \in 1..(k - 1) :
                                       _normalize(clause.alts[j], context).err = NoError}}
            [] clause.type = "max_repeat" ->
                 IF clause.min = 0 /\ ~(clause.max > 0) THEN {}
                 ELSE walk_normalize(clause.sub, context)
            [] clause.type = "subpattern" ->
                 IF subpattern_opening(clause.id, context).err # NoError THEN {}
                 ELSE walk_normalize(clause.sub, subpattern_context(clause.id, context))
            [] OTHER -> {})

----------------------------------------------------------------------------
(* normalize, consumed one next() at a time *)

\* Context(pattern_reverse_groupdict, False)
RootContext == Context(reverse_groupdict(pattern_groupdict), FALSE, hash_order)

\* the generator normalize iterates over
Root(tree, groupdict) ==
    _normalize(tree, Context(reverse_groupdict(groupdict), FALSE, hash_order))

\* what that generator has still to give
Remaining == gen

\* a resolver that lets every triple through
resolved_always(t) == TRUE

\* a resolver that is content with any required name
resolved_by_any_arg(t) == t.refs = <<>> \/ t.args # <<>>

\* unresolved_refs is empty after every arg was discarded from set(refs)
resolved(t) == Range(t.refs) \ Range(t.args) = {}

\* the pair normalize yields for a triple
pair(t) == <<t.fs, t.args>>

NoCall == [fn |-> "none"]

Init ==
    /\ \/ \E i \in DOMAIN StructurePatterns :
             /\ pattern_parse_tree = StructurePatterns[i].tree
             /\ pattern_groupdict = StructurePatterns[i].gd
       \/ \E p \in Patterns :
             /\ pattern_parse_tree = p.tree
             /\ pattern_groupdict = p.gd
    /\ hash_order \in OrdersOf(pattern_parse_tree)
    /\ pc = "created"
    /\ gen = Root(pattern_parse_tree, pattern_groupdict)
    /\ out = <<>>
    /\ raised = NoError
    /\ call = NoCall

Running == pc \in {"created", "suspended"}

\* the triples next() passes over, and the one it stops at
Resolved(s) == {i \in 1..Len(s.items) : resolved(s.items[i])}

\* next() runs to the next yield
NextYield ==
    /\ Running
    /\ LET s == Remaining IN
       /\ Resolved(s) # {}
       /\ LET k == CHOOSE i \in Resolved(s) : \A j \in Resolved(s) : i <= j IN
          /\ out' = Append(out, pair(s.items[k]))
          /\ gen' = [items |-> SubSeq(s.items, k + 1, Len(s.items)), err |-> s.err]
    /\ pc' = "suspended"
    /\ UNCHANGED <<hash_order, pattern_parse_tree, pattern_groupdict, raised, call>>

\* next() runs to the end of the generator: StopIteration
NextStop ==
    /\ Running
    /\ LET s == Remaining IN Resolved(s) = {} /\ s.err = NoError
    /\ pc' = "done"
    /\ gen' = Yield(<<>>)
    /\ UNCHANGED <<hash_order, pattern_parse_tree, pattern_groupdict, out, raised, call>>

\* next() runs into the exception of a handler
NextRaise ==
    /\ Running
    /\ LET s == Remaining IN
       /\ Resolved(s) = {}
       /\ s.err # NoError
       /\ raised' = s.err
    /\ pc' = "raised"
    /\ gen' = Yield(<<>>)
    /\ UNCHANGED <<hash_order, pattern_parse_tree, pattern_groupdict, out, call>>

\* one call of the walk, made on its own and drained
\* a call with the streams of the clauses it dispatches itself and its result
Called(v) ==
    [fn |-> v.fn, arg |-> v.arg, context |-> v.context,
     inner |-> IF v.fn = "_normalize"
               THEN [i \in DOMAIN v.arg |-> dispatch_clause(v.arg[i], v.context)]
               ELSE <<>>,
     result |-> IF v.fn = "_normalize" THEN _normalize(v.arg, v.context)
                ELSE dispatch_clause(v.arg, v.context)]

DispatchClause ==
    /\ pc = "created"
    /\ \E v \in walk_normalize(pattern_parse_tree, RootContext) :
          /\ v.fn = "dispatch_clause"
          /\ call' = Called(v)
    /\ pc' = "called"
    /\ UNCHANGED <<hash_order, pattern_parse_tree, pattern_groupdict, gen, out, raised>>

Combine ==
    /\ pc = "created"
    /\ \E v \in walk_normalize(pattern_parse_tree, RootContext) :
          /\ v.fn = "_normalize"
          /\ call' = Called(v)
    /\ pc' = "called"
    /\ UNCHANGED <<hash_order, pattern_parse_tree, pattern_groupdict, gen, out, raised>>

Next == NextYield \/ NextStop \/ NextRaise \/ DispatchClause \/ Combine

Spec == Init /\ [][Next]_vars

----------------------------------------------------------------------------
(* What the claims speak of *)

Created == pc = "created"
Consumed == pc \in {"suspended", "done", "raised"}
Ended == pc \in {"done", "raised"}
Dispatched(type) ==
    pc = "called" /\ call.fn = "dispatch_clause" /\ call.arg.type = type
Combined == pc = "called" /\ call.fn = "_normalize"

NoTriple == Triple(<<>>, <<>>, <<>>)

Clauses == PreorderSeq(pattern_parse_tree)

\* the ids of the groups declared with a name
NamedIds == {pattern_groupdict[nm] : nm \in DOMAIN pattern_groupdict}
NameOf(id) == CHOOSE nm \in DOMAIN pattern_groupdict : pattern_groupdict[nm] = id

Capturing(c) == c.type = "subpattern" /\ c.id # 0
Unnamed(c) == Capturing(c) /\ c.id \notin NamedIds

\* an underscore followed only by one or more digits
UnderscoreDigits(nm) ==
    Len(nm) >= 2 /\ nm[1] = 95 /\ \A i \in 2..Len(nm) : nm[i] >= 48 /\ nm[i] <= 57

HasReservedName == \E nm \in DOMAIN pattern_groupdict : UnderscoreDigits(nm)

\* the fatal error a clause triggers by itself, whatever is inside it
OwnError(c) ==
    CASE c.type \notin DISPATCH_TABLE -> UnknownClause
      [] c.type = "in" -> parse_in(c, RootContext).err
      [] c.type = "max_repeat" /\ c.min = 0 /\ c.max = 0 -> AssertionFailed
      [] Capturing(c) /\ c.id \in NamedIds /\ UnderscoreDigits(NameOf(c.id)) -> InvalidGroupName
      [] OTHER -> NoError

\* the fatal errors of the clauses, in document order
FatalErrors == SelectSeq(Map(Clauses, OwnError), LAMBDA e : e # NoError)
HasFatal == FatalErrors # <<>>
FirstFatal == FatalErrors[1]

\* the marker and the name list of a group called nm
MarkerTriple(nm) == Triple(<<37, 40>> \o nm \o <<41, 115>>, <<nm>>, <<>>)

----------------------------------------------------------------------------
(* C1 *)

\* every referenced name is among the required names
RefsWithinArgs(t) == \A r \in Range(t.refs) : \E i \in DOMAIN t.args : t.args[i] = r

RootTriples == Root(pattern_parse_tree, pattern_groupdict)

ExpectedPairs ==
    LET kept == SelectSeq(RootTriples.items, RefsWithinArgs)
    IN  [i \in 1..Len(kept) |-> <<kept[i].fs, kept[i].args>>]

\* C1: the pairs normalize yields are, in combinator order, the root triples
\* whose referenced names are all among their required names, each reduced to
\* (template, required list); a triple with a referenced name missing is passed
\* over without an exception and the others are still yielded.
C1_BackrefSoundness ==
    Consumed =>
        /\ Len(out) <= Len(ExpectedPairs)
        /\ out = SubSeq(ExpectedPairs, 1, Len(out))
        /\ pc = "done" => out = ExpectedPairs
        /\ pc = "raised" => RootTriples.err # NoError

C1_Witness ==
    /\ pc = "done"
    /\ out # <<>>
    /\ \E i \in DOMAIN RootTriples.items : ~RefsWithinArgs(RootTriples.items[i])

----------------------------------------------------------------------------
(* C2 *)

OptionalRepeat(c) == c.type = "max_repeat" /\ c.min = 0 /\ c.max > 0

\* the pattern ends in an optional group that has a marker
EndsInOptionalGroup ==
    /\ pattern_parse_tree # <<>>
    /\ LET last == pattern_parse_tree[Len(pattern_parse_tree)] IN
       /\ OptionalRepeat(last)
       /\ Len(last.sub) = 1
       /\ Capturing(last.sub[1])

LastGroupName ==
    LET g == pattern_parse_tree[Len(pattern_parse_tree)].sub[1]
    IN  IF g.id \in NamedIds THEN NameOf(g.id) ELSE <<95>> \o Decimal(g.id - 1)

\* C2: a MaxRepeat with min = 0 and max > 0 yields the empty triple, and yields it
\* first, whatever its subsequence; and in the output of a pattern that ends in an
\* optional group the template without the group comes before the same template
\* with the group's marker.
C2_ZeroWidthFirst ==
    /\ (Dispatched("max_repeat") /\ OptionalRepeat(call.arg)) =>
          /\ call.result.items # <<>>
          /\ call.result.items[1] = NoTriple
    /\ (pc = "done" /\ EndsInOptionalGroup) =>
          \A j \in DOMAIN out :
              LastGroupName \in Range(out[j][2]) =>
                  \E i \in 1..(j - 1) :
                      /\ out[j][1] = out[i][1] \o MarkerTriple(LastGroupName).fs
                      /\ out[j][2] = out[i][2] \o <<LastGroupName>>

C2_Witness ==
    /\ Dispatched("max_repeat")
    /\ OptionalRepeat(call.arg)
    /\ Len(call.result.items) >= 2
    /\ call.arg.sub # <<>>

----------------------------------------------------------------------------
(* C3 *)

\* C3 as claimed: a pattern with a group declared under a reserved name fails with
\* InvalidGroupName, and no other pattern does.
C3_AlwaysInvalidGroupName ==
    Ended =>
        /\ HasReservedName => raised = InvalidGroupName
        /\ raised = InvalidGroupName => HasReservedName

\* C3, amended: a pattern with a group declared under a reserved name fails before
\* any pair is yielded, with the error of the first fatal clause in document
\* order: InvalidGroupName when no clause before the group is fatal itself, the
\* error of that clause otherwise; no pattern without such a name fails with
\* InvalidGroupName.
C3_InvalidGroupNameUnlessEarlierError ==
    Consumed =>
        /\ HasReservedName =>
              /\ pc = "raised"
              /\ out = <<>>
              /\ raised = FirstFatal
        /\ raised = InvalidGroupName => HasReservedName

C3_Witness ==
    /\ pc = "raised"
    /\ raised = InvalidGroupName
    /\ ~Capturing(pattern_parse_tree[1])
    /\ Len(FatalErrors) >= 2

----------------------------------------------------------------------------
(* C4 *)

Ascii == 0..127
WordCharacters == (48..57) \cup (65..90) \cup (97..122) \cup {95}

\* the characters an item of a class stands for in a regular expression
Denotes(it) ==
    CASE it.type = "literal" -> {it.c}
      [] it.type = "range" -> it.lo..it.hi
      [] it.type = "category" /\ it.cat = "category_digit" -> 48..57
      [] it.type = "category" /\ it.cat = "category_not_digit" -> Ascii \ (48..57)
      [] it.type = "category" /\ it.cat = "category_space" -> {9, 10, 11, 12, 13, 32}
      [] it.type = "category" /\ it.cat = "category_not_space" -> Ascii \ {9, 10, 11, 12, 13, 32}
      [] it.type = "category" /\ it.cat = "category_word" -> WordCharacters
      [] it.type = "category" /\ it.cat = "category_not_word" -> Ascii \ WordCharacters
      [] OTHER -> {}

SupportedItem(it) ==
    it.type \in {"literal", "range"}
    \/ (it.type = "category" /\ it.cat \in {"category_digit", "category_not_digit",
           "category_space", "category_not_space", "category_word", "category_not_word"})

\* a negated class of supported items, dispatched, that yielded
NegatedClassYielded ==
    /\ Dispatched("in")
    /\ call.arg.items[1].type = "negate"
    /\ \A i \in 2..Len(call.arg.items) : SupportedItem(call.arg.items[i])
    /\ call.result.err = NoError

\* C4: the character a negated class of literals, ranges and supported categories
\* yields is in the set of none of its items, and is the least character of the
\* allowed alphabet outside those sets.
C4_NegationComplement ==
    NegatedClassYielded =>
        LET excluded == UNION {Denotes(call.arg.items[i]) : i \in 2..Len(call.arg.items)}
            left == ALLOWED_URL_CHARACTERS \ excluded
        IN  /\ Len(call.result.items) = 1
            /\ Len(call.result.items[1].fs) = 1
            /\ call.result.items[1].fs[1] \notin excluded
            /\ call.result.items[1].fs[1] \in left
            /\ \A c \in left : call.result.items[1].fs[1] <= c

----------------------------------------------------------------------------
(* C5 *)

PlaceOf(id) == CHOOSE i \in DOMAIN Clauses : Capturing(Clauses[i]) /\ Clauses[i].id = id

\* how many unnamed capturing groups open before the group id
UnnamedBefore(id) ==
    Cardinality({i \in 1..(PlaceOf(id) - 1) : Unnamed(Clauses[i])})

\* how many capturing groups, named or not, open before the group id
CapturingBefore(id) ==
    Cardinality({i \in 1..(PlaceOf(id) - 1) : Capturing(Clauses[i])})

\* an unnamed group dispatched outside every unnamed group
OuterUnnamedDispatched ==
    /\ Dispatched("subpattern")
    /\ Unnamed(call.arg)
    /\ ~call.context.in_unnamed_group

\* C5 as claimed: the group is called _n, n its place among the unnamed groups.
C5_OrdinalAmongUnnamed ==
    OuterUnnamedDispatched =>
        /\ call.result.items # <<>>
        /\ call.result.items[1] = MarkerTriple(<<95>> \o Decimal(UnnamedBefore(call.arg.id)))

\* C5, amended: an unnamed capturing group outside every unnamed group is called
\* _n where n is its group id minus one: its zero-based place among all the
\* capturing groups of the pattern, named ones and nested ones included, in the
\* order they open; that is its place among the unnamed groups exactly when no
\* named group opens before it.
C5_OrdinalAmongCapturing ==
    OuterUnnamedDispatched =>
        /\ call.result.items # <<>>
        /\ call.result.items[1] = MarkerTriple(<<95>> \o Decimal(CapturingBefore(call.arg.id)))
        /\ CapturingBefore(call.arg.id) = call.arg.id - 1
        /\ (UnnamedBefore(call.arg.id) = CapturingBefore(call.arg.id))
              <=> (\A k \in NamedIds : k > call.arg.id)

C5_Witness ==
    /\ OuterUnnamedDispatched
    /\ \E k \in NamedIds : k < call.arg.id
    /\ UnnamedBefore(call.arg.id) >= 1

----------------------------------------------------------------------------
(* C6 *)

RECURSIVE NestedUnnamedSeq(_, _)
RECURSIVE NestedUnnamedClause(_, _)
\* the ids of the unnamed capturing groups of a tree that have an unnamed
\* capturing group among their ancestors; below says whether the tree itself is
\* inside one
NestedUnnamedSeq(tree, below) ==
    UNION {NestedUnnamedClause(tree[i], below) : i \in DOMAIN tree}
NestedUnnamedClause(c, below) ==
    CASE c.type = "branch" -> UNION {NestedUnnamedSeq(c.alts[i], below) : i \in DOMAIN c.alts}
      [] c.type \in {"max_repeat", "min_repeat"} -> NestedUnnamedSeq(c.sub, below)
      [] c.type = "subpattern" ->
           (IF Unnamed(c) /\ below THEN {c.id} ELSE {})
           \cup NestedUnnamedSeq(c.sub, below \/ Unnamed(c))
      [] OTHER -> {}

NestedUnnamed == NestedUnnamedSeq(pattern_parse_tree, FALSE)

\* C6: an unnamed capturing group with an unnamed capturing group among its
\* ancestors, at any depth and through named or non-capturing groups, emits no
\* marker: its implicit name is in no placeholder list of the output and in no
\* triple it yields, while an unnamed group outside every unnamed group yields
\* its marker first.
C6_NestedUnnamedFlattened ==
    /\ \A j \in DOMAIN out : \A id \in NestedUnnamed :
          (<<95>> \o Decimal(id - 1)) \notin Range(out[j][2])
    /\ (Dispatched("subpattern") /\ Unnamed(call.arg)) =>
          LET nm == <<95>> \o Decimal(call.arg.id - 1) IN
          IF call.arg.id \in NestedUnnamed
            THEN \A k \in DOMAIN call.result.items :
                    /\ nm \notin Range(call.result.items[k].args)
                    /\ call.result.items[k] # MarkerTriple(nm)
            ELSE call.result.items # <<>> /\ call.result.items[1] = MarkerTriple(nm)

C6_Witness ==
    /\ pc = "done"
    /\ out # <<>>
    /\ \E i \in DOMAIN Clauses :
          /\ Unnamed(Clauses[i])
          /\ Clauses[i].id \in NestedUnnamed
          /\ \E k \in DOMAIN Clauses[i].sub : Capturing(Clauses[i].sub[k])

----------------------------------------------------------------------------
(* C7 *)

\* the triples of the subsequence of the dispatched group
InnerTriples ==
    _normalize(call.arg.sub, subpattern_context(call.arg.id, call.context)).items

Yielded(t) == \E k \in DOMAIN call.result.items : call.result.items[k] = t

\* C7: a capturing group yields a triple of its subsequence if and only if the
\* triple has a required or a referenced name; a non-capturing group yields every
\* triple of its subsequence unchanged.
C7_InnerFilter ==
    (Dispatched("subpattern") /\ call.result.err = NoError) =>
        IF Capturing(call.arg)
          THEN \A i \in DOMAIN InnerTriples :
                  Yielded(InnerTriples[i])
                      <=> (InnerTriples[i].args # <<>> \/ InnerTriples[i].refs # <<>>)
          ELSE call.result.items = InnerTriples

----------------------------------------------------------------------------
(* C8 *)

AlternativeTriples(i) == _normalize(call.arg.alts[i], call.context)

BranchCompleted ==
    /\ Dispatched("branch")
    /\ \A i \in DOMAIN call.arg.alts : AlternativeTriples(i).err = NoError

RECURSIVE TriplesBefore(_)
\* how many triples the alternatives before the i-th have
TriplesBefore(i) ==
    IF i <= 1 THEN 0 ELSE TriplesBefore(i - 1) + Len(AlternativeTriples(i - 1).items)

\* C8: a Branch yields the whole result of its first alternative, then of its
\* second, and so on, each combined on its own with the context of the branch;
\* it yields as many triples as its alternatives have together.
C8_BranchIsUnion ==
    BranchCompleted =>
        /\ call.result.err = NoError
        /\ Len(call.result.items) = TriplesBefore(Len(call.arg.alts) + 1)
        /\ \A i \in DOMAIN call.arg.alts :
              \A k \in DOMAIN AlternativeTriples(i).items :
                  call.result.items[TriplesBefore(i) + k] = AlternativeTriples(i).items[k]

C8_Witness ==
    /\ BranchCompleted
    /\ Len(AlternativeTriples(1).items) >= 2
    /\ Len(AlternativeTriples(2).items) >= 1
    /\ AlternativeTriples(1).items[1] # AlternativeTriples(2).items[1]

----------------------------------------------------------------------------
(* C9 *)

SiblingTriples(i) == call.inner[i]

CombineCompleted ==
    /\ Combined
    /\ \A i \in DOMAIN call.arg : SiblingTriples(i).err = NoError

RECURSIVE TuplesFrom(_)
\* how many tuples the siblings from the i-th on have
TuplesFrom(i) ==
    IF i > Len(call.arg) THEN 1 ELSE Len(SiblingTriples(i).items) * TuplesFrom(i + 1)

\* the triple of the i-th sibling in the k-th tuple, the first sibling varying slowest
Chosen(k, i) ==
    SiblingTriples(i).items[
        (((k - 1) \div TuplesFrom(i + 1)) % Len(SiblingTriples(i).items)) + 1]

\* C9: the combinator yields one triple for each element of the Cartesian product
\* of the triples of the siblings, the first sibling varying slowest and the last
\* fastest, the fragments concatenated in sibling order; nothing is removed, and
\* nothing is yielded when a sibling yields nothing.
C9_CombinatorProduct ==
    CombineCompleted =>
        /\ call.result.err = NoError
        /\ Len(call.result.items) = TuplesFrom(1)
        /\ \A k \in DOMAIN call.result.items :
              /\ call.result.items[k].fs
                    = Join([i \in DOMAIN call.arg |-> Chosen(k, i).fs])
              /\ Range(call.result.items[k].refs)
                    = UNION {Range(Chosen(k, i).refs) : i \in DOMAIN call.arg}
              /\ Range(call.result.items[k].args)
                    = UNION {Range(Chosen(k, i).args) : i \in DOMAIN call.arg}

C9_Witness ==
    /\ CombineCompleted
    /\ Len(call.arg) >= 2
    /\ Len(SiblingTriples(1).items) >= 2
    /\ Len(SiblingTriples(2).items) >= 2
    /\ SiblingTriples(1).items[1].fs # SiblingTriples(1).items[2].fs

----------------------------------------------------------------------------
(* C10 *)

\* C10: when a clause anywhere in the tree triggers a fatal error, the first
\* next() raises the error of such a clause, and no pair is yielded before it.
C10_NoPartialResults ==
    /\ pc = "raised" => out = <<>>
    /\ Consumed =>
          LET errors == FatalErrors
          IN  IF errors # <<>>
              THEN pc = "raised" /\ \E i \in DOMAIN errors : raised = errors[i]
              ELSE pc # "raised"

\* the fatal clause is inside an optional repeat, or in the second alternative of
\* a branch whose first alternative yields
C10_Witness ==
    /\ pc = "raised"
    /\ Len(pattern_parse_tree) = 1
    /\ \/ /\ OptionalRepeat(pattern_parse_tree[1])
       \/ /\ pattern_parse_tree[1].type = "branch"
          /\ _normalize(pattern_parse_tree[1].alts[1], RootContext).err = NoError

----------------------------------------------------------------------------
(* C11 *)

Unsupported(it) == it.type = "category" /\ it.cat \notin DOMAIN CATEGORY_MAP

HasUnsupported(items) == \E i \in DOMAIN items : Unsupported(items[i])

Negated(items) == items # <<>> /\ items[1].type = "negate"

\* C11 as stated: a class that holds a category without an entry in the table
\* fails with NotImplementedError, negated or not, wherever the item stands.
C11_UnsupportedNeverSkipped ==
    (Dispatched("in") /\ HasUnsupported(call.arg.items)) =>
        call.result = Raise(UnsupportedCategory)

\* C11 amended: a negated class fails with NotImplementedError when any of its
\* items is such a category; a class that is not negated fails when its first
\* item is one, and otherwise yields the one triple of its first item, whatever
\* follows it.
C11_UnsupportedFirstOrNegated ==
    Dispatched("in") =>
        LET items == call.arg.items IN
        IF Negated(items)
          THEN HasUnsupported(items) => call.result = Raise(UnsupportedCategory)
          ELSE IF Unsupported(items[1])
                 THEN call.result = Raise(UnsupportedCategory)
                 ELSE /\ call.result.err = NoError
                      /\ call.result = dispatch_clause(In(<<items[1]>>), call.context)

\* a class that is not negated, with the unsupported category after a literal
C11_Witness ==
    /\ Dispatched("in")
    /\ ~Negated(call.arg.items)
    /\ Len(call.arg.items) = 2
    /\ call.arg.items[1].type = "literal"
    /\ Unsupported(call.arg.items[2])
    /\ Len(call.result.items) = 1
    /\ call.result.err = NoError

----------------------------------------------------------------------------
(* C12 *)

\* the Python exception class of an error
ErrorKind(e) ==
    CASE e = UnsupportedCategory -> "NotImplementedError"
      [] e = UnknownClause -> "KeyError"
      [] e \in {InvalidGroupName, EmptySequence} -> "ValueError"
      [] e = AssertionFailed -> "AssertionError"
      [] OTHER -> "none"

UnknownKindDispatched ==
    /\ pc = "called"
    /\ call.fn = "dispatch_clause"
    /\ call.arg.type \notin DISPATCH_TABLE

\* C12: dispatching a clause whose kind has no handler in the dispatch table
\* fails with NotImplementedError, the error an unsupported category raises.
C12_UnknownKindIsUnsupportedFeature ==
    UnknownKindDispatched =>
        /\ call.result.items = <<>>
        /\ ErrorKind(call.result.err) = ErrorKind(UnsupportedCategory)

----------------------------------------------------------------------------
(* C13 *)

WordPattern == <<In(<<CategoryItem("category_word")>>)>>

\* C13: the pattern \w yields exactly one pair, the template x (lower case)
\* with no placeholder.
C13_WordYieldsLowerX ==
    (pattern_parse_tree = WordPattern /\ pc = "done") =>
        out = << <<(<<120>>), <<>>>> >>

----------------------------------------------------------------------------
(* C14 *)

\* the generator normalize iterates over, in a process that iterates sets in order
RunUnder(order) ==
    _normalize(pattern_parse_tree,
               Context(reverse_groupdict(pattern_groupdict), FALSE, order))

\* what draining normalize over a generator gives: the pairs, then how it ends
OutputOf(s) ==
    [pairs |-> [i \in 1..Len(SelectSeq(s.items, resolved)) |->
                   pair(SelectSeq(s.items, resolved)[i])],
     err |-> s.err]

\* C14: two runs on the same tree and the same group names give the same pairs
\* in the same order, with the same name lists, and end the same way, whatever
\* the order in which each of the two processes iterates its sets; the run under
\* way gives that output.
C14_Determinism ==
    /\ Created =>
          \A o1, o2 \in IterationOrders : OutputOf(RunUnder(o1)) = OutputOf(RunUnder(o2))
    /\ Ended =>
          \A o \in IterationOrders :
              /\ out = OutputOf(RunUnder(o)).pairs
              /\ raised = OutputOf(RunUnder(o)).err

\* a run that has yielded, on a tree whose triples differ between the two orders
C14_Witness ==
    /\ pc = "done"
    /\ out # <<>>
    /\ RunUnder("ascending") # RunUnder("descending")

----------------------------------------------------------------------------
(* C15 *)

\* where marker m first stands in template fs, 0 when it does not
FirstAt(fs, m) ==
    LET at == {k \in 1..(Len(fs) - Len(m) + 1) : SubSeq(fs, k, k + Len(m) - 1) = m}
    IN  IF at = {} THEN 0 ELSE CHOOSE k \in at : \A j \in at : k <= j

\* the placeholder name a capturing group contributes
PlaceholderOf(c) ==
    IF c.id \in NamedIds THEN NameOf(c.id) ELSE ImplicitName(c.id)

CapturingGroups == SelectSeq(Clauses, Capturing)

\* C15: every placeholder list yielded holds no name twice and keeps the names
\* in the order their markers first stand in the template; and in a pattern that
\* yields, no two capturing groups have the same placeholder name.
C15_PlaceholderNamesUnique ==
    /\ \A p \in DOMAIN out :
          LET fs == out[p][1]
              args == out[p][2]
          IN  /\ \A i, j \in DOMAIN args : i # j => args[i] # args[j]
              /\ \A i \in DOMAIN args : FirstAt(fs, Marker(args[i])) > 0
              /\ \A i, j \in DOMAIN args :
                    i < j => FirstAt(fs, Marker(args[i])) < FirstAt(fs, Marker(args[j]))
    /\ (out # <<>> \/ pc = "done") =>
          LET groups == CapturingGroups
          IN  \A i, j \in DOMAIN groups :
                  groups[i].id # groups[j].id =>
                      PlaceholderOf(groups[i]) # PlaceholderOf(groups[j])

\* a pair with the name of a declared group and the implicit name of another
C15_Witness ==
    /\ pc = "done"
    /\ \E p \in DOMAIN out :
          /\ Len(out[p][2]) = 2
          /\ out[p][2][1] \in DOMAIN pattern_groupdict
          /\ out[p][2][2] \notin DOMAIN pattern_groupdict

----------------------------------------------------------------------------
(* C16 *)

\* the combinator results of the subsequence of the repeat that was dispatched
RepeatInner == _normalize(call.arg.sub, call.context)

\* a repeat the parser can hand over (max > 0) whose subsequence raises nothing
RepeatDispatched ==
    /\ Dispatched("max_repeat")
    /\ call.arg.max > 0
    /\ RepeatInner.err = NoError

\* C16: a MaxRepeat with max > 0 yields the zero-width triple first when min = 0,
\* and then, in the order of the combinator results of its subsequence, each
\* result with the fragment written max(min, 1) times and the names unchanged,
\* leaving out, when min = 0, the results without any name; .*(A) gives only
\* the marker of the group.
C16_MaxRepeatExpansion ==
    /\ RepeatDispatched =>
          LET mn == call.arg.min
              kept == SelectSeq(RepeatInner.items,
                                LAMBDA t : mn # 0 \/ t.args # <<>> \/ t.refs # <<>>)
              repeat == IF mn > 1 THEN mn ELSE 1
              zero == IF mn = 0 THEN 1 ELSE 0
              got == call.result.items
          IN  /\ call.result.err = NoError
              /\ Len(got) = zero + Len(kept)
              /\ mn = 0 => got[1] = NoTriple
              /\ \A k \in DOMAIN kept :
                    LET frag == kept[k].fs
                        n == Len(frag)
                    IN  /\ got[zero + k].args = kept[k].args
                        /\ got[zero + k].refs = kept[k].refs
                        /\ Len(got[zero + k].fs) = repeat * n
                        /\ \A r \in 0..(repeat - 1) :
                              SubSeq(got[zero + k].fs, r * n + 1, (r + 1) * n) = frag
    /\ (pattern_parse_tree = DotStarGroup /\ pc = "done") =>
          out = <<pair(MarkerTriple(<<95, 48>>))>>

\* a group repeated {2} or {2,3}: its marker twice, its name once
C16_Witness ==
    /\ RepeatDispatched
    /\ call.arg.min = 2
    /\ Len(call.result.items) = 1
    /\ call.result.items[1].args = <<(<<95, 48>>)>>
    /\ call.result.items[1].fs = Marker(<<95, 48>>) \o Marker(<<95, 48>>)

----------------------------------------------------------------------------
(* C17 *)

RECURSIVE FlagSeq(_, _)
RECURSIVE FlagClause(_, _)
\* each clause of a tree with whether one of its ancestors is an unnamed capturing
\* group; below says so for the tree itself
FlagSeq(tree, below) == UNION {FlagClause(tree[i], below) : i \in DOMAIN tree}
FlagClause(c, below) ==
    {<<c, below>>}
    \cup (CASE c.type = "branch" -> UNION {FlagSeq(c.alts[i], below) : i \in DOMAIN c.alts}
            [] c.type = "max_repeat" -> FlagSeq(c.sub, below)
            [] c.type = "subpattern" -> FlagSeq(c.sub, below \/ Unnamed(c))
            [] OTHER -> {})

\* the clauses the walk of the pattern dispatches, each with the flag it is
\* dispatched with
DispatchedFlags ==
    {<<v.arg, v.context.in_unnamed_group>> :
        v \in {w \in walk_normalize(pattern_parse_tree, RootContext) :
                  w.fn = "dispatch_clause"}}

\* a nested unnamed group first, then an unnamed group at top level
NestedThenTopLevel ==
    /\ Len(pattern_parse_tree) >= 2
    /\ Unnamed(pattern_parse_tree[1])
    /\ \E k \in DOMAIN pattern_parse_tree[1].sub : Unnamed(pattern_parse_tree[1].sub[k])
    /\ Unnamed(pattern_parse_tree[Len(pattern_parse_tree)])

\* C17: a clause is dispatched with in_unnamed_group true exactly when one of its
\* ancestors is an unnamed capturing group: every dispatch of the walk carries
\* the flag of the clause's place in the tree, a walk that no error cuts short
\* dispatches every clause so, and an unnamed group at top level that follows
\* one with nested unnamed groups is dispatched unflagged and yields its marker.
C17_ContextIsolation ==
    /\ (pc = "called" /\ call.fn = "dispatch_clause") =>
          <<call.arg, call.context.in_unnamed_group>> \in FlagSeq(pattern_parse_tree, FALSE)
    /\ (Created /\ ~HasFatal) => DispatchedFlags = FlagSeq(pattern_parse_tree, FALSE)
    /\ (Created /\ ~HasFatal /\ NestedThenTopLevel) =>
          LET last == pattern_parse_tree[Len(pattern_parse_tree)]
          IN  /\ <<last, TRUE>> \notin DispatchedFlags
              /\ dispatch_clause(last, RootContext).items[1]
                    = MarkerTriple(ImplicitName(last.id))

\* (())() : the third group is dispatched at top level and yields the marker _2
C17_Witness ==
    /\ NestedThenTopLevel
    /\ Dispatched("subpattern")
    /\ call.arg = pattern_parse_tree[Len(pattern_parse_tree)]
    /\ call.arg.id = 3
    /\ ~call.context.in_unnamed_group
    /\ call.result.items[1] = MarkerTriple(<<95, 50>>)

----------------------------------------------------------------------------
(* C18 *)

\* the group that was dispatched has yielded a marker of its own
MarkerEmitted ==
    /\ Dispatched("subpattern")
    /\ Capturing(call.arg)
    /\ call.arg.id \in NamedIds \/ ~call.context.in_unnamed_group
    /\ call.result.items # <<>>

\* a capturing group and then the back-reference to it
GroupThenBackref ==
    /\ Len(pattern_parse_tree) = 2
    /\ Capturing(pattern_parse_tree[1])
    /\ pattern_parse_tree[2] = GroupRef(pattern_parse_tree[1].id)

\* C18: a GroupRef yields one triple, without required names and with the one
\* referenced name its fragment is the marker of; a back-reference to a group
\* that has yielded its own marker yields that very marker; a group followed by
\* its back-reference gives the marker twice and the name once.
C18_BackrefNaming ==
    /\ Dispatched("groupref") =>
          /\ call.result.err = NoError
          /\ Len(call.result.items) = 1
          /\ call.result.items[1].args = <<>>
          /\ Len(call.result.items[1].refs) = 1
          /\ call.result.items[1].fs = Marker(call.result.items[1].refs[1])
    /\ MarkerEmitted =>
          LET ref == dispatch_clause(GroupRef(call.arg.id), RootContext).items[1]
          IN  /\ ref.fs = call.result.items[1].fs
              /\ ref.refs = call.result.items[1].args
    /\ (GroupThenBackref /\ pc = "done") =>
          LET nm == PlaceholderOf(pattern_parse_tree[1])
          IN  out = << <<Marker(nm) \o Marker(nm), <<nm>>>> >>

\* (?P<a>)(?P=a) has run to its end
C18_Witness ==
    /\ GroupThenBackref
    /\ pattern_parse_tree[1].id \in NamedIds
    /\ pc = "done"
    /\ Len(out) = 1
    /\ out[1][2] = <<NameOf(pattern_parse_tree[1].id)>>

----------------------------------------------------------------------------
(* C19 *)

\* the names of the back-references of the pattern to flattened groups
FlattenedRefNames ==
    {(<<95>> \o Decimal(c.id - 1)) :
        c \in {b \in Range(Backrefs(pattern_parse_tree)) : b.id \in NestedUnnamed}}

\* such a back-reference stands at top level, where every combination holds it
FlattenedRefAtTopLevel ==
    \E i \in DOMAIN pattern_parse_tree :
        /\ pattern_parse_tree[i].type = "groupref"
        /\ pattern_parse_tree[i].id \in NestedUnnamed

\* C19: a back-reference to an unnamed group nested inside an unnamed group is
\* never resolved: the resolver passes over every root triple that refers to
\* it, no template yielded holds its marker, and a pattern that has it as a
\* top-level sibling yields no pair at all.
C19_FlattenedBackrefUnresolved ==
    /\ Created =>
          \A i \in DOMAIN gen.items : \A nm \in FlattenedRefNames :
              nm \in Range(gen.items[i].refs) => i \notin Resolved(gen)
    /\ \A p \in DOMAIN out : \A nm \in FlattenedRefNames :
          FirstAt(out[p][1], Marker(nm)) = 0
    /\ FlattenedRefAtTopLevel => out = <<>>

\* (())\2 has run to its end, and has passed over a triple with the reference
C19_Witness ==
    /\ FlattenedRefAtTopLevel
    /\ pc = "done"
    /\ out = <<>>
    /\ RootTriples.items # <<>>
    /\ \E nm \in FlattenedRefNames : nm \in Range(RootTriples.items[1].refs)

----------------------------------------------------------------------------
(* C20 *)

\* a negated class of literals, ranges and categories the table holds
SupportedNegatedClass ==
    /\ Dispatched("in")
    /\ Negated(call.arg.items)
    /\ ~HasUnsupported(call.arg.items)

\* C20: a negated class of literals, ranges and supported categories yields
\* exactly one triple, a single character of the allowed alphabet without any
\* name, also when its items cover the whole allowed alphabet.
C20_NegatedClassHasWitness ==
    SupportedNegatedClass =>
        /\ call.result.err = NoError
        /\ Len(call.result.items) = 1
        /\ Len(call.result.items[1].fs) = 1
        /\ call.result.items[1].fs[1] \in ALLOWED_URL_CHARACTERS
        /\ call.result.items[1].args = <<>>
        /\ call.result.items[1].refs = <<>>

----------------------------------------------------------------------------
(* C21 *)

\* a tree without a back-reference in which no clause is fatal
PlainPattern == Backrefs(pattern_parse_tree) = <<>> /\ ~HasFatal

\* a capturing group was dispatched and raised nothing
GroupCompleted ==
    /\ Dispatched("subpattern")
    /\ Capturing(call.arg)
    /\ call.result.err = NoError

\* C21: a tree without a back-reference and without a fatal clause yields at
\* least one pair; a capturing group yields no triple only when it is unnamed
\* and inside an unnamed group; and an unnamed group outside every unnamed
\* group yields its own marker triple first.
C21_NonEmptyWithoutBackrefs ==
    /\ (PlainPattern /\ Created) => (gen.err = NoError /\ Resolved(gen) # {})
    /\ (PlainPattern /\ pc = "done") => out # <<>>
    /\ (GroupCompleted /\ call.result.items = <<>>) =>
          (Unnamed(call.arg) /\ call.context.in_unnamed_group)
    /\ (GroupCompleted /\ Unnamed(call.arg) /\ ~call.context.in_unnamed_group) =>
          /\ call.result.items # <<>>
          /\ call.result.items[1] = MarkerTriple(ImplicitName(call.arg.id))

\* ((a)) has run to its end: the inner group gave nothing, the outer its marker
C21_Witness ==
    /\ PlainPattern
    /\ pc = "done"
    /\ Len(pattern_parse_tree) = 1
    /\ Unnamed(pattern_parse_tree[1])
    /\ pattern_parse_tree[1].sub # <<>>
    /\ Unnamed(pattern_parse_tree[1].sub[1])
    /\ dispatch_clause(pattern_parse_tree[1].sub[1],
                       subpattern_context(pattern_parse_tree[1].id, RootContext)).items = <<>>
    /\ out = <<pair(MarkerTriple(<<95, 48>>))>>

----------------------------------------------------------------------------
(* C22 *)

\* the category that stands for the complement of a category
Counterpart(c) ==
    CASE c = "category_digit" -> "category_not_digit"
      [] c = "category_not_digit" -> "category_digit"
      [] c = "category_space" -> "category_not_space"
      [] c = "category_not_space" -> "category_space"
      [] c = "category_word" -> "category_not_word"
      [] c = "category_not_word" -> "category_word"

\* the categories of the table among the items of the class that was dispatched
CategoriesLookedUp ==
    IF Dispatched("in")
      THEN {call.arg.items[i].cat :
               i \in {k \in DOMAIN call.arg.items :
                         /\ call.arg.items[k].type = "category"
                         /\ call.arg.items[k].cat \in DOMAIN CATEGORY_MAP}}
      ELSE {}

\* C22: in each of the six entries of the table the default mapping is one
\* character of the entry's own character set, and the character sets of a
\* category and of its counterpart have no character in common; checked for
\* every entry a dispatched class holds.
C22_TableConsistent ==
    \A c \in CategoriesLookedUp :
        /\ Len(CATEGORY_MAP[c].default_mapping) = 1
        /\ CATEGORY_MAP[c].default_mapping[1] \in CATEGORY_MAP[c].char_set
        /\ CATEGORY_MAP[c].char_set \cap CATEGORY_MAP[Counterpart(c)].char_set = {}

=============================================================================
